---- MODULE Spec2Model ----
(***************************************************************************)
(* Model of the resilient completion client of crates/ai_getway            *)
(* (models/zhi_pu.rs): zhi_pu_completion and its helpers, and of the RPC   *)
(* client of crates/anki_connect (anki/client.rs): AnkiClient::invoke and  *)
(* the operations built on it.                                             *)
(*                                                                         *)
(* One call of zhi_pu_completion is a small machine: it issues a request,  *)
(* awaits its outcome, and either returns, or sleeps and loops.  The model *)
(* keeps the locals of each call (retry_count, api_key, request) and, as   *)
(* history, the requests sent, the outcomes received, the log records      *)
(* written and the sleeps that elapsed.                                    *)
(***************************************************************************)
EXTENDS Integers, Sequences, FiniteSets, TLC

VARIABLES
    callers,      \* the callers that call zhi_pu_completion in this run
    pc,           \* position of each call: idle, loop, awaiting, sleeping, done
    api_key,      \* argument api_key of each call
    request,      \* argument request of each call
    retry_count,  \* local retry_count of each call
    sent,         \* history: the requests each call has issued, in order
    inflight,     \* number of requests of each call awaiting an outcome
    attempts,     \* history: the outcome of each completed attempt, in order
    logs,         \* history: the log::warn! records of each call, in order
    sleeping,     \* duration (s) of the sleep the call is suspended in, or 0
    slept,        \* history: the durations of the sleeps that elapsed, in order
    result        \* what the call returned: None while it is running

completion_vars == <<callers, pc, api_key, request, retry_count, sent, inflight,
                     attempts, logs, sleeping, slept, result>>

VARIABLES
    anki,         \* the AnkiClient: its url and version
    invoke_pc,    \* position of the client's caller: ready, awaiting, done
    invocation,   \* the operation being invoked, with its argument
    envelope,     \* the last AnkiRequest built and its serialized form
    posts,        \* history: the POSTs of the current invocation
    received,     \* history: what came back for the current invocation
    outcome,      \* what invoke returned to the operation
    invoked,      \* number of invocations started on the client
    posted,       \* number of POSTs issued by the client
    returned      \* what the operation returned to its caller

anki_vars == <<anki, invoke_pc, invocation, envelope, posts, received, outcome,
               invoked, posted, returned>>

vars == <<completion_vars, anki_vars>>

-----------------------------------------------------------------------------
(* Inputs *)

CallIds == {"c1", "c2"}

ApiKeys == {"key1", "key2"}

Requests == {"req1", "req2"}

\* reqwest::Error values of a send that got no HTTP status back
TransportErrors == {"connect", "timeout"}

\* HTTP status codes the server answers with
Statuses == {200, 201, 304, 400, 401, 404, 500, 501, 502, 503, 504}

\* A text is the name of the content it was cut from and its characters,
\* given as runs of n characters of w bytes each (their UTF-8 width).
Run(n, w) == [n |-> n, w |-> w]

Ascii(n) == IF n = 0 THEN <<>> ELSE <<Run(n, 1)>>

Mixed(nAscii, nWide) == Ascii(nAscii) \o <<Run(nWide, 3)>>

Text(id, chars) == [id |-> id, chars |-> chars]

TextBodies ==
    { Text("short", Ascii(5)),
      Text("ascii200", Ascii(200)),
      Text("ascii201", Ascii(201)),
      Text("wide_at_200", Mixed(200, 1)),    \* 203 bytes, 201 chars, 200 is a boundary
      Text("wide_over_200", Mixed(199, 1)),  \* 202 bytes, 200 chars, 200 splits a char
      Text("short_wide", Mixed(2, 67)) }     \* 203 bytes, 69 chars, 200 is a boundary

\* A response body: whether it can be read at all, the JSON value it parses
\* to ("none": not JSON), the ZhiPuResponse it deserializes to ("none": the
\* JSON does not have that shape), and its text.
Body(readable, json, typed, text) ==
    [readable |-> readable, json |-> json, typed |-> typed, text |-> text]

Bodies ==
    { Body(TRUE, "json_response", "response1", Text("response", Ascii(150))),
      Body(TRUE, "json_error", "none", Text("error_json", Ascii(40))),
      Body(FALSE, "none", "none", Text("unread", Ascii(0))) }
    \cup { Body(TRUE, "none", "none", t) : t \in TextBodies }

-----------------------------------------------------------------------------
(* Pure helpers of zhi_pu.rs *)

MAX_RETRIES == 3

\* Variant: 504 is left out of the retryable codes.
is_retryable_error_without_504(status_code) == status_code \in {500, 502, 503}

\* Variant: every 5xx code is retryable.
is_retryable_error_any_5xx(status_code) == status_code >= 500

is_retryable_error(status_code) == status_code \in {500, 502, 503, 504}

\* Variant: only 200 counts as success.
is_success_only_200(status) == status = 200

\* reqwest::StatusCode::is_success
is_success(status) == 200 <= status /\ status < 300

RECURSIVE Pow2(_)
Pow2(e) == IF e = 0 THEN 1 ELSE 2 * Pow2(e - 1)

\* Variant: the exponent is retry_count, not retry_count - 1.
sleep_duration_from_two(count) == Pow2(count)

\* 2u64.pow(retry_count - 1) on a u32 retry_count.  With retry_count = 0 the
\* exponent wraps to 2^32 - 1 and the power wraps to 0 (a release build; a
\* debug build panics on the subtraction).
sleep_duration(count) == IF count >= 1 THEN Pow2(count - 1) ELSE 0

\* str::len: the length in bytes.
RECURSIVE ByteLen(_)
ByteLen(chars) ==
    IF chars = <<>> THEN 0 ELSE Head(chars).n * Head(chars).w + ByteLen(Tail(chars))

\* The number of characters.
RECURSIVE CharLen(_)
CharLen(chars) == IF chars = <<>> THEN 0 ELSE Head(chars).n + CharLen(Tail(chars))

\* The number of leading characters of chars that fit in n bytes.
RECURSIVE CharsWithin(_, _)
CharsWithin(chars, n) ==
    IF chars = <<>> THEN 0
    ELSE LET h == Head(chars)
         IN  IF h.n * h.w <= n
             THEN h.n + CharsWithin(Tail(chars), n - h.n * h.w)
             ELSE n \div h.w

\* The first k characters of chars.
RECURSIVE Prefix(_, _)
Prefix(chars, k) ==
    IF chars = <<>> \/ k = 0 THEN <<>>
    ELSE LET h == Head(chars)
         IN  IF h.n <= k
             THEN <<h>> \o Prefix(Tail(chars), k - h.n)
             ELSE <<Run(k, h.w)>>

\* str::is_char_boundary
is_char_boundary(chars, n) == ByteLen(Prefix(chars, CharsWithin(chars, n))) = n

TruncateAt == 200

None == [tag |-> "None"]

Panic == [tag |-> "Panic"]

\* The messages of the errors the call returns.
NetworkErrorMessage(e) ==
    [fmt |-> "ZhiPu API network error: {}", err |-> e]

JsonErrorMessage(json) ==
    [fmt |-> "ZhiPu API error: {}", json |-> json]

TextErrorMessage(status, text, ellipsis) ==
    [fmt |-> "ZhiPu API error ({}): {}", status |-> status,
     text |-> text, ellipsis |-> ellipsis]

\* format_error_response: Ok(message), or a panic of the slice
\* &error_text[..200] when byte 200 is inside a character.
format_error_response(body, status) ==
    LET error_text == IF body.readable THEN body.text
                      ELSE Text("Failed to read error body", Ascii(25))
    IN  IF body.readable /\ body.json # "none"
        THEN [tag |-> "Ok", msg |-> JsonErrorMessage(body.json)]
        ELSE IF ByteLen(error_text.chars) > TruncateAt
             THEN IF is_char_boundary(error_text.chars, TruncateAt)
                  THEN [tag |-> "Ok",
                        msg |-> TextErrorMessage(status,
                                   Text(error_text.id,
                                        Prefix(error_text.chars,
                                               CharsWithin(error_text.chars, TruncateAt))),
                                   TRUE)]
                  ELSE Panic
             ELSE [tag |-> "Ok",
                   msg |-> TextErrorMessage(status, error_text, FALSE)]

\* response.json::<ZhiPuResponse>()
parse_json(body) ==
    IF body.readable /\ body.typed # "none"
    THEN [tag |-> "Ok", response |-> body.typed]
    ELSE [tag |-> "Err", kind |-> "decode",
          msg |-> [fmt |-> "reqwest::Error",
                   err |-> IF body.readable THEN "decode" ELSE "body"]]

\* Variant: a 2xx body that does not deserialize is retried like a transient
\* status.
handle_http_response_retry_decode(status, body, count, max_retries) ==
    IF is_success(status)
    THEN LET parsed == parse_json(body)
         IN  IF parsed.tag = "Ok"
             THEN [tag |-> "Some", response |-> parsed.response]
             ELSE IF count < max_retries THEN None ELSE parsed
    ELSE IF is_retryable_error(status) /\ count < max_retries
         THEN None
         ELSE LET formatted == format_error_response(body, status)
              IN  IF formatted.tag = "Ok"
                  THEN [tag |-> "Err", kind |-> "api", msg |-> formatted.msg]
                  ELSE Panic

\* Variant: the error of a response adds the retry count to its message.
handle_http_response_with_retry_count(status, body, count, max_retries) ==
    IF is_success(status)
    THEN LET parsed == parse_json(body)
         IN  IF parsed.tag = "Ok"
             THEN [tag |-> "Some", response |-> parsed.response]
             ELSE parsed
    ELSE IF is_retryable_error(status) /\ count < max_retries
         THEN None
         ELSE LET formatted == format_error_response(body, status)
              IN  IF formatted.tag = "Ok"
                  THEN [tag |-> "Err", kind |-> "api",
                        msg |-> [fmt |-> "ZhiPu API error after {} retries",
                                 retry_count |-> count, inner |-> formatted.msg]]
                  ELSE Panic

\* handle_http_response: Some(response), None (retry), Err(error), or a panic.
handle_http_response(status, body, count, max_retries) ==
    IF is_success(status)
    THEN LET parsed == parse_json(body)
         IN  IF parsed.tag = "Ok"
             THEN [tag |-> "Some", response |-> parsed.response]
             ELSE parsed
    ELSE IF is_retryable_error(status) /\ count < max_retries
         THEN None
         ELSE LET formatted == format_error_response(body, status)
              IN  IF formatted.tag = "Ok"
                  THEN [tag |-> "Err", kind |-> "api", msg |-> formatted.msg]
                  ELSE Panic

-----------------------------------------------------------------------------
(* The RPC client of anki/client.rs: data and pure helpers *)

DEFAULT_ANKI_CONNECT_URL == "http://localhost:8765"

\* Option<T>: None is <<>>, Some(x) is <<x>>.
Some(x) == <<x>>

\* The constructors of AnkiClient.
AnkiClient_new ==
    [client |-> "Client::new()", url |-> DEFAULT_ANKI_CONNECT_URL, version |-> 6]

\* Variant: with_url keeps the default endpoint.
AnkiClient_with_url_keeping_default(url) ==
    [client |-> "Client::new()", url |-> DEFAULT_ANKI_CONNECT_URL, version |-> 6]

AnkiClient_with_url(url) ==
    [client |-> "Client::new()", url |-> url, version |-> 6]

AnkiClient_with_client(client) ==
    [client |-> client, url |-> DEFAULT_ANKI_CONNECT_URL, version |-> 6]

AnkiClient_default == AnkiClient_new

\* JSON values as serde_json writes them: a type and the token text, or an
\* object with its members in the order they are written.
JString(s) == [type |-> "string", text |-> s]

JNumber(n) == [type |-> "number", text |-> ToString(n)]

JBool(b) == [type |-> "bool", text |-> IF b THEN "true" ELSE "false"]

JNull == [type |-> "null", text |-> "null"]

JObject(members) == [type |-> "object", members |-> members]

Member(key, value) == [key |-> key, value |-> value]

JArray(items) == [type |-> "array", items |-> items]

\* The parameter payloads the model's operations pass to invoke.
Unit == [ty |-> "()"]

GetDeckNamesParams(cards) == [ty |-> "GetDeckNamesParams", cards |-> cards]

FindNotesParams(query) == [ty |-> "FindNotesParams", query |-> query]

UpdateNoteFieldsParams(note, fields, audio) ==
    [ty |-> "UpdateNoteFieldsParams", note |-> note, fields |-> fields,
     audio |-> audio]

\* derive(Serialize) of the parameter structs; cards is skipped when None.
serialize_params(p) ==
    CASE p.ty = "()" -> JNull
      [] p.ty = "GetDeckNamesParams" ->
            JObject(IF p.cards = <<>> THEN <<>>
                    ELSE <<Member("cards", JBool(p.cards[1]))>>)
      [] p.ty = "FindNotesParams" ->
            JObject(<<Member("query", JString(p.query))>>)
      [] p.ty = "UpdateNoteFieldsParams" ->
            JObject(<<Member("note", JNumber(p.note)),
                      Member("fields", JObject(p.fields))>>
                    \o (IF p.audio = <<>> THEN <<>>
                        ELSE <<Member("audio", JArray(p.audio[1]))>>))

\* AnkiRequest::new
AnkiRequest_new(action, version, params) ==
    [action |-> action, version |-> version, params |-> params]

\* Variant: params is written as null when it is None.
to_string_with_null_params(req) ==
    JObject(<<Member("action", JString(req.action)),
              Member("version", JNumber(req.version)),
              Member("params", IF req.params = <<>> THEN JNull
                               ELSE serialize_params(req.params[1]))>>)

\* serde_json::to_string of an AnkiRequest: action, version, and params
\* unless it is None (skip_serializing_if).
to_string(req) ==
    JObject(<<Member("action", JString(req.action)),
              Member("version", JNumber(req.version))>>
            \o (IF req.params = <<>> THEN <<>>
                ELSE <<Member("params", serialize_params(req.params[1]))>>))

\* The keys of a JSON object, in order.
Keys(json) == [i \in DOMAIN json.members |-> json.members[i].key]

\* The value of the member key of a JSON object that has it.
ValueOf(json, key) ==
    json.members[CHOOSE i \in DOMAIN json.members : json.members[i].key = key].value

HasKey(json, key) == \E i \in DOMAIN json.members : json.members[i].key = key

\* Reading a serialized envelope back as a request: action and version from
\* their members, params None when the key is missing.
ParseRequest(json) ==
    [action |-> ValueOf(json, "action").text,
     version |-> CHOOSE n \in 0..255 : ToString(n) = ValueOf(json, "version").text,
     params |-> IF HasKey(json, "params") THEN Some(ValueOf(json, "params")) ELSE <<>>]

\* The tokens a response member can hold; "absent" when the key is missing.
StringTokens == {"x", "y", "abc"}

ResultTokens ==
    {"absent", "null", "12345", "4294967296", "true", "false", "abc",
     "[Default]", "[1,2]"}

ErrorTokens == {"absent", "null", "x", "5"}

DetailTokens == {"absent", "null", "y", "5"}

\* The text of a response: a JSON object with its result, error and detail
\* members, JSON that is not an object, text that is not JSON, or a body that
\* cannot be read.
AnkiBody(kind, r, e, d) ==
    [kind |-> kind, result |-> r, error |-> e, detail |-> d]

AnkiBodies ==
    { AnkiBody("object", r, e, d) :
          r \in ResultTokens, e \in ErrorTokens, d \in DetailTokens }
    \cup { AnkiBody(k, "absent", "absent", "absent") :
               k \in {"not_object", "not_json", "unreadable"} }

AnkiStatuses == {200, 500}

\* Deserialize of the result types of the operations.
deserializable(token, rtype) ==
    CASE rtype = "u32" -> token \in {"12345"}
      [] rtype = "u64" -> token \in {"12345", "4294967296"}
      [] rtype = "bool" -> token \in {"true", "false"}
      [] rtype = "Vec<String>" -> token \in {"[Default]"}
      [] rtype = "Vec<u64>" -> token \in {"[1,2]"}

\* Variant: the Error variant is tried before the Success variant.
from_str_error_first(text, rtype) ==
    IF /\ text.kind = "object"
       /\ text.error \in StringTokens
       /\ text.detail \in StringTokens \cup {"absent", "null"}
    THEN [variant |-> "Error",
          error |-> text.error,
          detail |-> IF text.detail \in StringTokens THEN Some(text.detail) ELSE <<>>]
    ELSE IF text.kind = "object" /\ deserializable(text.result, rtype)
    THEN [variant |-> "Success", result |-> [ty |-> rtype, value |-> text.result]]
    ELSE [variant |-> "Mismatch"]

\* Variant: the error member may be missing or null in the Error variant.
from_str_lenient(text, rtype) ==
    IF text.kind = "object" /\ deserializable(text.result, rtype)
    THEN [variant |-> "Success", result |-> [ty |-> rtype, value |-> text.result]]
    ELSE IF text.kind = "object"
    THEN [variant |-> "Error",
          error |-> text.error,
          detail |-> IF text.detail \in StringTokens THEN Some(text.detail) ELSE <<>>]
    ELSE [variant |-> "Mismatch"]

\* serde_json::from_str::<AnkiResponse<R>>: the untagged enum tries Success
\* { result: R } first, then Error { error: String, detail: Option<String> };
\* unknown members are ignored, a null or missing detail is None.
from_str(text, rtype) ==
    IF text.kind = "object" /\ deserializable(text.result, rtype)
    THEN [variant |-> "Success", result |-> [ty |-> rtype, value |-> text.result]]
    ELSE IF /\ text.kind = "object"
            /\ text.error \in StringTokens
            /\ text.detail \in StringTokens \cup {"absent", "null"}
    THEN [variant |-> "Error",
          error |-> text.error,
          detail |-> IF text.detail \in StringTokens THEN Some(text.detail) ELSE <<>>]
    ELSE [variant |-> "Mismatch"]

NoOutcome == [tag |-> "None"]

\* anyhow errors with their context.
ContextError(kind, context, source) ==
    [tag |-> "Err", kind |-> kind, msg |-> [context |-> context, source |-> source]]

\* Variant: the detail is left out of the message.
match_response_without_detail(r) ==
    IF r.variant = "Success"
    THEN [tag |-> "Ok", value |-> r.result]
    ELSE [tag |-> "Err", kind |-> "remote",
          msg |-> [fmt |-> "Anki-Connect error: {}", error_msg |-> <<r.error>>]]

\* The match on the parsed response at the end of invoke.
match_response(r) ==
    IF r.variant = "Success"
    THEN [tag |-> "Ok", value |-> r.result]
    ELSE [tag |-> "Err", kind |-> "remote",
          msg |-> [fmt |-> "Anki-Connect error: {}",
                   error_msg |-> IF r.detail # <<>>
                                 THEN <<r.error, ": ", r.detail[1]>>
                                 ELSE <<r.error>>]]

\* invoke from the response on: read the text, parse it, match it.
invoke_result(body, rtype) ==
    IF body.kind = "unreadable"
    THEN ContextError("read", "Failed to read response from Anki-Connect", "reqwest::Error")
    ELSE LET anki_response == from_str(body, rtype)
         IN  IF anki_response.variant = "Mismatch"
             THEN ContextError("decode", "Failed to parse Anki-Connect response",
                               "serde_json::Error")
             ELSE match_response(anki_response)

\* Variant: get_deck_names always passes a params object.
get_deck_names_params_always(cards) == Some(GetDeckNamesParams(cards))

\* The params get_deck_names passes to invoke.
get_deck_names_params(cards) ==
    IF cards # <<>> THEN Some(GetDeckNamesParams(cards)) ELSE <<>>

\* Variant: update_note_fields does not look at the boolean.
update_note_fields_result_ignoring_false(r) ==
    IF r.tag = "Ok" THEN [tag |-> "Ok", value |-> [ty |-> "()", value |-> "()"]]
    ELSE r

\* update_note_fields after invoke: the ? passes an error of invoke on, true
\* becomes Ok(()), false becomes an error.
update_note_fields_result(r) ==
    IF r.tag # "Ok" THEN r
    ELSE IF r.value.value = "true"
    THEN [tag |-> "Ok", value |-> [ty |-> "()", value |-> "()"]]
    ELSE [tag |-> "Err", kind |-> "domain",
          msg |-> [fmt |-> "Failed to update note fields"]]

\* What the operation makes of the result of invoke: update_note_fields
\* checks it, the other operations return it as it is.
operation_result(op, r) ==
    IF op = "update_note_fields" THEN update_note_fields_result(r) ELSE r

NoInvocation == [op |-> "none", arg |-> <<>>, rtype |-> "none"]

NoEnvelope == [request |-> AnkiRequest_new("none", 0, <<>>), json |-> JNull]

\* The RPC client before its first use.
AnkiReady(client) ==
    /\ anki = client
    /\ invoke_pc = "ready"
    /\ invocation = NoInvocation
    /\ envelope = NoEnvelope
    /\ posts = <<>>
    /\ received = <<>>
    /\ outcome = NoOutcome
    /\ invoked = 0
    /\ posted = 0
    /\ returned = NoOutcome

-----------------------------------------------------------------------------
(* The call *)

Init ==
    /\ AnkiReady(AnkiClient_new)
    /\ callers = {"c1"}
    /\ pc = [c \in CallIds |-> "idle"]
    /\ api_key = [c \in CallIds |-> "none"]
    /\ request = [c \in CallIds |-> "none"]
    /\ retry_count = [c \in CallIds |-> 0]
    /\ sent = [c \in CallIds |-> <<>>]
    /\ inflight = [c \in CallIds |-> 0]
    /\ attempts = [c \in CallIds |-> <<>>]
    /\ logs = [c \in CallIds |-> <<>>]
    /\ sleeping = [c \in CallIds |-> 0]
    /\ slept = [c \in CallIds |-> <<>>]
    /\ result = [c \in CallIds |-> None]

\* A caller enters zhi_pu_completion(api_key, request): a new client and
\* retry_count = 0.
Call(c, key, req) ==
    /\ c \in callers
    /\ pc[c] = "idle"
    /\ pc' = [pc EXCEPT ![c] = "loop"]
    /\ api_key' = [api_key EXCEPT ![c] = key]
    /\ request' = [request EXCEPT ![c] = req]
    /\ retry_count' = [retry_count EXCEPT ![c] = 0]
    /\ UNCHANGED anki_vars
    /\ UNCHANGED <<callers, sent, inflight, attempts, logs, sleeping, slept, result>>

\* Variant: the next request is issued without awaiting the sleep.
execute_zhi_pu_request_while_sleeping(c) ==
    /\ pc[c] \in {"loop", "sleeping"}
    /\ sent' = [sent EXCEPT ![c] =
                  Append(@, [url |-> "/chat/completions",
                             authorization |-> <<"Bearer", api_key[c]>>,
                             json |-> request[c]])]
    /\ inflight' = [inflight EXCEPT ![c] = @ + 1]
    /\ pc' = [pc EXCEPT ![c] = "awaiting"]
    /\ UNCHANGED anki_vars
    /\ UNCHANGED <<callers, api_key, request, retry_count, attempts, logs,
                   sleeping, slept, result>>

\* Variant: each request is marked with the number of the attempt.
execute_zhi_pu_request_with_attempt_marker(c) ==
    /\ pc[c] = "loop"
    /\ sent' = [sent EXCEPT ![c] =
                  Append(@, [url |-> "/chat/completions",
                             authorization |-> <<"Bearer", api_key[c]>>,
                             json |-> request[c],
                             attempt |-> Len(sent[c]) + 1])]
    /\ inflight' = [inflight EXCEPT ![c] = @ + 1]
    /\ pc' = [pc EXCEPT ![c] = "awaiting"]
    /\ UNCHANGED anki_vars
    /\ UNCHANGED <<callers, api_key, request, retry_count, attempts, logs,
                   sleeping, slept, result>>

\* The top of the loop: execute_zhi_pu_request posts the request and the call
\* awaits the outcome.
execute_zhi_pu_request(c) ==
    /\ pc[c] = "loop"
    /\ sent' = [sent EXCEPT ![c] =
                  Append(@, [url |-> "/chat/completions",
                             authorization |-> <<"Bearer", api_key[c]>>,
                             json |-> request[c]])]
    /\ inflight' = [inflight EXCEPT ![c] = @ + 1]
    /\ pc' = [pc EXCEPT ![c] = "awaiting"]
    /\ UNCHANGED anki_vars
    /\ UNCHANGED <<callers, api_key, request, retry_count, attempts, logs,
                   sleeping, slept, result>>

\* Variant: a transport failure is never retried.
network_retry_allowed_never(count) == FALSE

\* Variant: the test is <=, one retry too many.
network_retry_allowed_off_by_one(count) == count <= MAX_RETRIES

\* The test of the Err(e) arm: a transport failure is retried while
\* retry_count < MAX_RETRIES.
network_retry_allowed(count) == count < MAX_RETRIES

\* Variant: the sleep starts without a log record.
wait_before_retry_silent(c, count, error_message) ==
    /\ logs' = logs
    /\ sleeping' = [sleeping EXCEPT ![c] = sleep_duration(count)]
    /\ pc' = [pc EXCEPT ![c] = "sleeping"]

\* wait_before_retry: compute the duration, write the log record, and suspend
\* in tokio::time::sleep.
wait_before_retry(c, count, error_message) ==
    /\ logs' = [logs EXCEPT ![c] =
                  Append(@, [fmt |-> "ZhiPu API {} retrying in {:?}...",
                             error_message |-> error_message,
                             sleep_duration |-> sleep_duration(count)])]
    /\ sleeping' = [sleeping EXCEPT ![c] = sleep_duration(count)]
    /\ pc' = [pc EXCEPT ![c] = "sleeping"]

\* The call returns r to its caller (or unwinds, when r is Panic).
Return(c, r) ==
    /\ result' = [result EXCEPT ![c] = r]
    /\ pc' = [pc EXCEPT ![c] = "done"]

\* Variant: retry_count is one counter shared by all the calls.
TransportFailure_shared_counter(c, e) ==
    /\ pc[c] = "awaiting"
    /\ inflight' = [inflight EXCEPT ![c] = @ - 1]
    /\ attempts' = [attempts EXCEPT ![c] = Append(@, [kind |-> "transport", err |-> e])]
    /\ IF network_retry_allowed(retry_count[c])
       THEN /\ retry_count' = [d \in CallIds |-> retry_count[c] + 1]
            /\ wait_before_retry(c, retry_count[c] + 1,
                                 [fmt |-> "network error: {}", err |-> e])
            /\ UNCHANGED result
       ELSE /\ Return(c, [tag |-> "Err", kind |-> "network",
                          msg |-> NetworkErrorMessage(e)])
            /\ UNCHANGED <<retry_count, logs, sleeping>>
    /\ UNCHANGED anki_vars
    /\ UNCHANGED <<callers, api_key, request, sent, slept>>

\* Variant: wait_before_retry is called before retry_count is incremented.
TransportFailure_waits_before_counting(c, e) ==
    /\ pc[c] = "awaiting"
    /\ inflight' = [inflight EXCEPT ![c] = @ - 1]
    /\ attempts' = [attempts EXCEPT ![c] = Append(@, [kind |-> "transport", err |-> e])]
    /\ IF network_retry_allowed(retry_count[c])
       THEN /\ retry_count' = [retry_count EXCEPT ![c] = @ + 1]
            /\ wait_before_retry(c, retry_count[c],
                                 [fmt |-> "network error: {}", err |-> e])
            /\ UNCHANGED result
       ELSE /\ Return(c, [tag |-> "Err", kind |-> "network",
                          msg |-> NetworkErrorMessage(e)])
            /\ UNCHANGED <<retry_count, logs, sleeping>>
    /\ UNCHANGED anki_vars
    /\ UNCHANGED <<callers, api_key, request, sent, slept>>

\* The request comes back Err(e): no HTTP status was received.
TransportFailure(c, e) ==
    /\ pc[c] = "awaiting"
    /\ inflight' = [inflight EXCEPT ![c] = @ - 1]
    /\ attempts' = [attempts EXCEPT ![c] = Append(@, [kind |-> "transport", err |-> e])]
    /\ IF network_retry_allowed(retry_count[c])
       THEN /\ retry_count' = [retry_count EXCEPT ![c] = @ + 1]
            /\ wait_before_retry(c, retry_count[c] + 1,
                                 [fmt |-> "network error: {}", err |-> e])
            /\ UNCHANGED result
       ELSE /\ Return(c, [tag |-> "Err", kind |-> "network",
                          msg |-> NetworkErrorMessage(e)])
            /\ UNCHANGED <<retry_count, logs, sleeping>>
    /\ UNCHANGED anki_vars
    /\ UNCHANGED <<callers, api_key, request, sent, slept>>

\* The request comes back Ok(response) with a status and a body.  The body
\* is read only by response.json() and response.text(): a response that is
\* retried is dropped unread.
HttpResponse(c, status, body) ==
    /\ pc[c] = "awaiting"
    /\ inflight' = [inflight EXCEPT ![c] = @ - 1]
    /\ LET handled == handle_http_response(status, body, retry_count[c], MAX_RETRIES)
       IN  /\ attempts' = [attempts EXCEPT ![c] =
                  Append(@, [kind |-> "http", status |-> status,
                             read |-> IF is_success(status) \/ handled.tag # "None"
                                      THEN <<body>> ELSE <<>>])]
           /\ IF handled.tag = "Some"
              THEN /\ Return(c, [tag |-> "Ok", response |-> handled.response])
                   /\ UNCHANGED <<retry_count, logs, sleeping>>
              ELSE IF handled.tag = "None"
              THEN /\ retry_count' = [retry_count EXCEPT ![c] = @ + 1]
                   /\ wait_before_retry(c, retry_count[c] + 1,
                                        [fmt |-> "transient error {}", status |-> status])
                   /\ UNCHANGED result
              ELSE /\ Return(c, handled)
                   /\ UNCHANGED <<retry_count, logs, sleeping>>
    /\ UNCHANGED anki_vars
    /\ UNCHANGED <<callers, api_key, request, sent, slept>>

\* Variant: the sleep never completes.
SleepElapsed_never(c) ==
    /\ pc[c] = "sleeping"
    /\ UNCHANGED anki_vars
    /\ UNCHANGED completion_vars

\* tokio::time::sleep completes and the loop continues.
SleepElapsed(c) ==
    /\ pc[c] = "sleeping"
    /\ slept' = [slept EXCEPT ![c] = Append(@, sleeping[c])]
    /\ sleeping' = [sleeping EXCEPT ![c] = 0]
    /\ pc' = [pc EXCEPT ![c] = "loop"]
    /\ UNCHANGED anki_vars
    /\ UNCHANGED <<callers, api_key, request, retry_count, sent, inflight,
                   attempts, logs, result>>

Next ==
    \/ \E c \in CallIds, key \in ApiKeys, req \in Requests : Call(c, key, req)
    \/ \E c \in CallIds : execute_zhi_pu_request(c)
    \/ \E c \in CallIds, e \in TransportErrors : TransportFailure(c, e)
    \/ \E c \in CallIds, status \in Statuses, body \in Bodies : HttpResponse(c, status, body)
    \/ \E c \in CallIds : SleepElapsed(c)

Spec == Init /\ [][Next]_vars

\* The environment of a call that is not left hanging: the runtime polls the
\* task, so the loop issues its next request; every request that is in
\* flight comes back with a response or a transport failure; every sleep
\* completes.
Fairness ==
    \A c \in CallIds :
        /\ WF_vars(execute_zhi_pu_request(c))
        /\ WF_vars(\/ \E e \in TransportErrors : TransportFailure(c, e)
                   \/ \E status \in Statuses, body \in Bodies :
                          HttpResponse(c, status, body))
        /\ WF_vars(SleepElapsed(c))

FairSpec == Init /\ [][Next]_vars /\ Fairness

\* Two callers run zhi_pu_completion concurrently, interleaved at the await
\* points, against a server with a smaller repertoire of answers.
InitConc ==
    /\ AnkiReady(AnkiClient_new)
    /\ callers = CallIds
    /\ pc = [c \in CallIds |-> "idle"]
    /\ api_key = [c \in CallIds |-> "none"]
    /\ request = [c \in CallIds |-> "none"]
    /\ retry_count = [c \in CallIds |-> 0]
    /\ sent = [c \in CallIds |-> <<>>]
    /\ inflight = [c \in CallIds |-> 0]
    /\ attempts = [c \in CallIds |-> <<>>]
    /\ logs = [c \in CallIds |-> <<>>]
    /\ sleeping = [c \in CallIds |-> 0]
    /\ slept = [c \in CallIds |-> <<>>]
    /\ result = [c \in CallIds |-> None]

ConcStatuses == {200, 404, 503}

ConcBodies == {b \in Bodies : b.text.id \in {"response", "error_json"}}

NextConc ==
    \/ \E c \in CallIds : Call(c, "key1", "req1")
    \/ \E c \in CallIds : execute_zhi_pu_request(c)
    \/ \E c \in CallIds : TransportFailure(c, "connect")
    \/ \E c \in CallIds, status \in ConcStatuses, body \in ConcBodies :
           HttpResponse(c, status, body)
    \/ \E c \in CallIds : SleepElapsed(c)

SpecConc == InitConc /\ [][NextConc]_vars

-----------------------------------------------------------------------------
(* The RPC client: invoke and the operations built on it *)

MaxInvokes == 2

AnkiClients ==
    { AnkiClient_new,
      AnkiClient_default,
      AnkiClient_with_url("http://custom:8765"),
      AnkiClient_with_client("custom client") }

InitAnki ==
    /\ \E client \in AnkiClients : AnkiReady(client)
    /\ callers = {}
    /\ pc = [c \in CallIds |-> "idle"]
    /\ api_key = [c \in CallIds |-> "none"]
    /\ request = [c \in CallIds |-> "none"]
    /\ retry_count = [c \in CallIds |-> 0]
    /\ sent = [c \in CallIds |-> <<>>]
    /\ inflight = [c \in CallIds |-> 0]
    /\ attempts = [c \in CallIds |-> <<>>]
    /\ logs = [c \in CallIds |-> <<>>]
    /\ sleeping = [c \in CallIds |-> 0]
    /\ slept = [c \in CallIds |-> <<>>]
    /\ result = [c \in CallIds |-> None]

\* AnkiRequest::new and serde_json::to_string on their own, as the
\* serialization tests run them, before the client is used.
new_request(action, version, params) ==
    /\ invoke_pc = "ready"
    /\ envelope' = [request |-> AnkiRequest_new(action, version, params),
                    json |-> to_string(AnkiRequest_new(action, version, params))]
    /\ UNCHANGED <<anki, invoke_pc, invocation, posts, received, outcome,
                   invoked, posted, returned>>
    /\ UNCHANGED completion_vars

\* invoke up to the await of send(): build the request with the client's
\* version and post it as JSON to the client's url.  op and arg name the
\* operation that called invoke.
invoke(op, arg, action, params, rtype) ==
    /\ invoke_pc \in {"ready", "done"}
    /\ invoked < MaxInvokes
    /\ LET req == AnkiRequest_new(action, anki.version, params)
       IN  /\ envelope' = [request |-> req, json |-> to_string(req)]
           /\ posts' = <<[method |-> "POST", url |-> anki.url, json |-> to_string(req)]>>
    /\ invocation' = [op |-> op, arg |-> arg, rtype |-> rtype]
    /\ received' = <<>>
    /\ outcome' = NoOutcome
    /\ returned' = NoOutcome
    /\ invoked' = invoked + 1
    /\ posted' = posted + 1
    /\ invoke_pc' = "awaiting"
    /\ UNCHANGED anki
    /\ UNCHANGED completion_vars

version == invoke("version", <<>>, "version", <<>>, "u32")

get_deck_names(cards) ==
    invoke("get_deck_names", cards, "getDeckNames", get_deck_names_params(cards),
           "Vec<String>")

find_notes(query) ==
    invoke("find_notes", Some(query), "findNotes", Some(FindNotesParams(query)),
           "Vec<u64>")

\* update_note_fields with the note, its fields and no audio or some audio.
update_note_fields(note_id, fields, audio) ==
    invoke("update_note_fields", Some(note_id), "updateNoteFields",
           Some(UpdateNoteFieldsParams(note_id, fields, audio)), "bool")

\* Variant: a failed send is posted once more.
send_failed_retry_once(e) ==
    /\ invoke_pc = "awaiting"
    /\ IF received = <<>>
       THEN /\ received' = <<[kind |-> "transport", err |-> e]>>
            /\ posts' = Append(posts, posts[1])
            /\ posted' = posted + 1
            /\ UNCHANGED <<outcome, returned, invoke_pc>>
       ELSE /\ outcome' = ContextError("transport",
                                       "Failed to send request to Anki-Connect", e)
            /\ returned' = operation_result(invocation.op, outcome')
            /\ invoke_pc' = "done"
            /\ UNCHANGED <<received, posts, posted>>
    /\ UNCHANGED <<anki, invocation, envelope, invoked>>
    /\ UNCHANGED completion_vars

\* send() comes back Err(e): invoke returns the error with its context.
send_failed(e) ==
    /\ invoke_pc = "awaiting"
    /\ received' = <<[kind |-> "transport", err |-> e]>>
    /\ outcome' = ContextError("transport", "Failed to send request to Anki-Connect", e)
    /\ returned' = operation_result(invocation.op, outcome')
    /\ invoke_pc' = "done"
    /\ UNCHANGED <<anki, invocation, envelope, posts, invoked, posted>>
    /\ UNCHANGED completion_vars

\* Variant: a status outside 2xx is an error, whatever the body.
responded_checking_status(status, body) ==
    /\ invoke_pc = "awaiting"
    /\ received' = <<[kind |-> "http", status |-> status, body |-> body]>>
    /\ outcome' = IF is_success(status)
                  THEN invoke_result(body, invocation.rtype)
                  ELSE ContextError("status", "Failed to send request to Anki-Connect",
                                    "reqwest::Error")
    /\ returned' = operation_result(invocation.op, outcome')
    /\ invoke_pc' = "done"
    /\ UNCHANGED <<anki, invocation, envelope, posts, invoked, posted>>
    /\ UNCHANGED completion_vars

\* send() comes back with a response: invoke reads its text, parses it and
\* returns the result or the error.  The status is not looked at.
responded(status, body) ==
    /\ invoke_pc = "awaiting"
    /\ received' = <<[kind |-> "http", status |-> status, body |-> body]>>
    /\ outcome' = invoke_result(body, invocation.rtype)
    /\ returned' = operation_result(invocation.op, outcome')
    /\ invoke_pc' = "done"
    /\ UNCHANGED <<anki, invocation, envelope, posts, invoked, posted>>
    /\ UNCHANGED completion_vars

RequestActions == {"version", "getDeckNames"}

RequestVersions == {0, 6, 255}

RequestParams ==
    {<<>>, Some(Unit), Some(GetDeckNamesParams(<<>>)), Some(GetDeckNamesParams(Some(TRUE)))}

NextAnki ==
    \/ \E a \in RequestActions, v \in RequestVersions, p \in RequestParams :
           new_request(a, v, p)
    \/ version
    \/ \E cards \in {<<>>, Some(TRUE), Some(FALSE)} : get_deck_names(cards)
    \/ \E query \in {"deck:Default"} : find_notes(query)
    \/ \E audio \in {<<>>, Some(<<>>)} :
           update_note_fields(1496198395, <<Member("Front", JString("abc"))>>, audio)
    \/ \E e \in TransportErrors : send_failed(e)
    \/ \E status \in AnkiStatuses, body \in AnkiBodies : responded(status, body)

SpecAnki == InitAnki /\ [][NextAnki]_vars

-----------------------------------------------------------------------------
(* Properties of one completion call *)

Done(c) == pc[c] = "done"

\* The call ended without a response: it returned Err or it panicked.
Failed(c) == Done(c) /\ result[c].tag \in {"Err", "Panic"}

LastAttempt(c) == attempts[c][Len(attempts[c])]

IsHttp(a, codes) == a.kind = "http" /\ a.status \in codes

IsTransport(a) == a.kind = "transport"

TransientCodes == {500, 502, 503, 504}

SuccessCodes == {s \in Statuses : s \div 100 = 2}

FatalCodes == (Statuses \ SuccessCodes) \ TransientCodes

\* Every attempt so far was answered with the status s.
AlwaysStatus(c, s) ==
    /\ attempts[c] # <<>>
    /\ \A i \in DOMAIN attempts[c] : IsHttp(attempts[c][i], {s})

\* Every attempt so far failed in transport.
AlwaysTransport(c) ==
    /\ attempts[c] # <<>>
    /\ \A i \in DOMAIN attempts[c] : IsTransport(attempts[c][i])

\* C1: against a server that answers every request with the same code of
\* {500, 502, 503, 504}, the call does not end before its 4th request has been
\* answered, never issues a 5th, and ends failed once the 4th is answered.
C1_FourRequestsOnTransientStatus ==
    \A c \in CallIds : \A s \in TransientCodes :
        AlwaysStatus(c, s) =>
            /\ Len(sent[c]) <= 4
            /\ Done(c) <=> Len(attempts[c]) = 4
            /\ Done(c) => Failed(c) /\ Len(sent[c]) = 4

C1_Witness ==
    /\ AlwaysStatus("c1", 504)
    /\ Failed("c1")
    /\ Len(sent["c1"]) = 4

\* C2: a response with a non-2xx status outside {500, 502, 503, 504} ends the
\* call failed on that response, whatever the retry count: no request, log
\* record or sleep follows it, and on the first attempt exactly 1 request was
\* issued and nothing was slept.
C2_FatalStatusFailsImmediately ==
    \A c \in CallIds :
        (attempts[c] # <<>> /\ IsHttp(LastAttempt(c), FatalCodes)) =>
            /\ Failed(c)
            /\ Len(sent[c]) = Len(attempts[c])
            /\ sleeping[c] = 0
            /\ Len(slept[c]) = Len(attempts[c]) - 1
            /\ Len(logs[c]) = Len(attempts[c]) - 1
            /\ Len(attempts[c]) = 1 =>
                   Len(sent[c]) = 1 /\ slept[c] = <<>> /\ logs[c] = <<>>

C2_Witness ==
    /\ Len(attempts["c1"]) = 1
    /\ IsHttp(LastAttempt("c1"), {501})
    /\ Failed("c1")
    /\ Len(sent["c1"]) = 1
    /\ slept["c1"] = <<>>

Backoff == <<1, 2, 4>>

\* C3: the sleeps of a call are 1s, 2s, 4s in that order; the k-th retry
\* (request k + 1) is issued after exactly k sleeps have elapsed; there is no
\* sleep before the first request and none once the call has ended.
C3_BackoffOneTwoFour ==
    \A c \in CallIds :
        /\ Len(slept[c]) <= 3
        /\ \A k \in DOMAIN slept[c] : slept[c][k] = Backoff[k]
        /\ pc[c] = "sleeping" =>
               /\ Len(slept[c]) < 3
               /\ sleeping[c] = Backoff[Len(slept[c]) + 1]
               /\ Len(sent[c]) = Len(slept[c]) + 1
        /\ pc[c] # "sleeping" => sleeping[c] = 0
        /\ pc[c] \in {"idle", "loop"} => Len(sent[c]) = Len(slept[c])
        /\ pc[c] \in {"awaiting", "done"} => Len(sent[c]) = Len(slept[c]) + 1

C3_Witness ==
    /\ Done("c1")
    /\ slept["c1"] = <<1, 2, 4>>
    /\ Len(sent["c1"]) = 4

\* C4: when every request fails in transport the call retries: it does not end
\* before its 4th request has failed, and then it ends with a network error
\* after 4 requests and the 3 sleeps between them.
C4_TransportFailureIsRetried ==
    \A c \in CallIds :
        AlwaysTransport(c) =>
            /\ Len(sent[c]) <= 4
            /\ Done(c) <=> Len(attempts[c]) = 4
            /\ Done(c) =>
                   /\ result[c].tag = "Err"
                   /\ result[c].kind = "network"
                   /\ Len(sent[c]) = 4
                   /\ Len(slept[c]) = 3

C4_Witness ==
    /\ AlwaysTransport("c1")
    /\ Done("c1")
    /\ result["c1"].tag = "Err"
    /\ result["c1"].kind = "network"
    /\ Len(sent["c1"]) = 4

\* The attempts of a call that were retried: all but the last of a call that
\* has ended.
Retried(c) ==
    {i \in DOMAIN attempts[c] : i < Len(attempts[c]) \/ ~Done(c)}

\* C5: whatever mix of transport failures and 500/502/503/504 responses a call
\* meets, it makes at most 3 retries and 4 requests: the retried transport
\* failures and the retried responses together number at most 3.
C5_OneRetryBudget ==
    \A c \in CallIds :
        /\ Len(sent[c]) <= 4
        /\ retry_count[c] <= 3
        /\ Cardinality({i \in Retried(c) : IsTransport(attempts[c][i])})
             + Cardinality({i \in Retried(c) : IsHttp(attempts[c][i], TransientCodes)})
             = retry_count[c]

C5_Witness ==
    /\ Done("c1")
    /\ Len(sent["c1"]) = 4
    /\ \E i, j \in 1..3 : /\ IsTransport(attempts["c1"][i])
                          /\ IsHttp(attempts["c1"][j], TransientCodes)

\* The body the call read from the response of attempt a.
BodyOf(a) == a.read[1]

\* A 2xx response whose body deserializes to a ZhiPuResponse.
IsValidSuccess(a) ==
    /\ IsHttp(a, SuccessCodes)
    /\ a.read # <<>>
    /\ BodyOf(a).readable
    /\ BodyOf(a).typed # "none"

\* A 2xx response whose body cannot be read or does not deserialize.
IsBadSuccess(a) == IsHttp(a, SuccessCodes) /\ ~IsValidSuccess(a)

\* C6: a 2xx response with a valid body ends the call with the parsed
\* response: when it answers request k the call has issued exactly k requests,
\* slept k - 1 times (none for k = 1), and no request or sleep follows.
C6_ValidSuccessReturnsAtOnce ==
    \A c \in CallIds :
        (attempts[c] # <<>> /\ IsValidSuccess(LastAttempt(c))) =>
            /\ Done(c)
            /\ result[c] = [tag |-> "Ok", response |-> BodyOf(LastAttempt(c)).typed]
            /\ Len(attempts[c]) <= 4
            /\ Len(sent[c]) = Len(attempts[c])
            /\ inflight[c] = 0
            /\ sleeping[c] = 0
            /\ Len(slept[c]) = Len(attempts[c]) - 1
            /\ retry_count[c] = Len(attempts[c]) - 1

C6_Witness ==
    /\ Len(attempts["c1"]) = 1
    /\ IsValidSuccess(LastAttempt("c1"))
    /\ result["c1"].tag = "Ok"
    /\ retry_count["c1"] = 0
    /\ slept["c1"] = <<>>

\* C7: a 2xx response whose body does not deserialize ends the call with a
\* decode error on that response, whatever the retry count: no log record,
\* sleep or request follows it.
C7_BadSuccessBodyIsFatal ==
    \A c \in CallIds :
        (attempts[c] # <<>> /\ IsBadSuccess(LastAttempt(c))) =>
            /\ Done(c)
            /\ result[c].tag = "Err"
            /\ result[c].kind = "decode"
            /\ Len(sent[c]) = Len(attempts[c])
            /\ inflight[c] = 0
            /\ sleeping[c] = 0
            /\ Len(slept[c]) = Len(attempts[c]) - 1
            /\ Len(logs[c]) = Len(attempts[c]) - 1

C7_Witness ==
    /\ Len(attempts["c1"]) = 1
    /\ IsBadSuccess(LastAttempt("c1"))
    /\ BodyOf(LastAttempt("c1")).json = "json_error"
    /\ result["c1"].tag = "Err"
    /\ result["c1"].kind = "decode"
    /\ retry_count["c1"] = 0

RetryableFailure(a) == IsTransport(a) \/ IsHttp(a, TransientCodes)

\* C8: a call that has ended holds a parsed response or an error value, a
\* response only for a valid 2xx answer; once the budget is exhausted the last
\* retryable failure is returned as an error: a network error for a transport
\* failure, an API error for a 500/502/503/504 response.
C8_EndsWithResponseOrError ==
    \A c \in CallIds :
        Done(c) =>
            /\ result[c].tag \in {"Ok", "Err"}
            /\ result[c].tag = "Ok" => IsValidSuccess(LastAttempt(c))
            /\ IsTransport(LastAttempt(c)) =>
                   result[c].tag = "Err" /\ result[c].kind = "network"
            /\ IsHttp(LastAttempt(c), TransientCodes) =>
                   result[c].tag = "Err" /\ result[c].kind = "api"

\* A message carries retry context when it names the retry count.
HasRetryContext(msg) == "retry_count" \in DOMAIN msg

\* The slice &error_text[..200] of format_error_response panics on this body:
\* it is not JSON, longer than 200 bytes, and byte 200 is inside a character.
SlicePanics(body) ==
    /\ body.readable
    /\ body.json = "none"
    /\ \E j \in DOMAIN body.text.chars :
           LET run == body.text.chars[j]
               before == ByteLen(SubSeq(body.text.chars, 1, j - 1))
           IN  /\ before < 200
               /\ 200 < before + run.n * run.w
               /\ (200 - before) % run.w # 0

\* Failures other than the retryable ones end the call on the spot.
C9_OtherFailuresReturnAtOnce(c) ==
    (attempts[c] # <<>>
        /\ (IsHttp(LastAttempt(c), FatalCodes) \/ IsBadSuccess(LastAttempt(c)))) =>
        /\ Failed(c)
        /\ Len(sent[c]) = Len(attempts[c])
        /\ Len(logs[c]) = Len(attempts[c]) - 1
        /\ sleeping[c] = 0

\* A retryable failure ends the call only as the failure of the 4th request.
C9_RetriedToTheBound(c) ==
    (Done(c) /\ RetryableFailure(LastAttempt(c))) =>
        /\ Len(attempts[c]) = 4
        /\ retry_count[c] = 3
        /\ \A i \in DOMAIN attempts[c] : RetryableFailure(attempts[c][i])

\* C9 as stated: the error returned after the retries are exhausted carries
\* retry context in its message.
C9_TerminalErrorHasRetryContext ==
    \A c \in CallIds :
        /\ C9_RetriedToTheBound(c)
        /\ C9_OtherFailuresReturnAtOnce(c)
        /\ (Done(c) /\ RetryableFailure(LastAttempt(c))) =>
               /\ result[c].tag = "Err"
               /\ result[c].kind \in {"network", "api"}
               /\ HasRetryContext(result[c].msg)

\* C9, amended: the failure returned after the retries are exhausted is built
\* from the last attempt alone, as for a failure without retries, and carries
\* no retry context: the network error of the transport failure, or the API
\* error of the response's status and body (a panic when the body makes the
\* slice of format_error_response panic); other failures end the call at once.
C9_TerminalErrorFromLastAttemptOnly ==
    \A c \in CallIds :
        /\ C9_RetriedToTheBound(c)
        /\ C9_OtherFailuresReturnAtOnce(c)
        /\ (Done(c) /\ IsTransport(LastAttempt(c))) =>
               result[c] = [tag |-> "Err", kind |-> "network",
                            msg |-> [fmt |-> "ZhiPu API network error: {}",
                                     err |-> LastAttempt(c).err]]
        /\ (Done(c) /\ IsHttp(LastAttempt(c), TransientCodes \cup FatalCodes)) =>
               IF SlicePanics(BodyOf(LastAttempt(c)))
               THEN result[c] = Panic
               ELSE /\ result[c].tag = "Err"
                    /\ result[c].kind = "api"
                    /\ ~HasRetryContext(result[c].msg)
                    /\ IF BodyOf(LastAttempt(c)).json # "none"
                       THEN result[c].msg = [fmt |-> "ZhiPu API error: {}",
                                             json |-> BodyOf(LastAttempt(c)).json]
                       ELSE /\ result[c].msg.fmt = "ZhiPu API error ({}): {}"
                            /\ result[c].msg.status = LastAttempt(c).status

C9_Witness ==
    /\ Done("c1")
    /\ Len(attempts["c1"]) = 4
    /\ IsHttp(LastAttempt("c1"), {503})
    /\ result["c1"].tag = "Err"
    /\ result["c1"].kind = "api"
    /\ ~HasRetryContext(result["c1"].msg)

\* C10: a call has at most one request in flight; a request is in flight or
\* being prepared only when every earlier attempt has completed as a retryable
\* failure and the sleep after each of them has elapsed; a call that has
\* ended has nothing in flight and issued nothing after the attempt that
\* ended it.
C10_AttemptsAreSequential ==
    \A c \in CallIds :
        /\ inflight[c] \in {0, 1}
        /\ inflight[c] = Len(sent[c]) - Len(attempts[c])
        /\ inflight[c] = 1 <=> pc[c] = "awaiting"
        /\ \A i \in DOMAIN attempts[c] :
               i < Len(attempts[c]) => RetryableFailure(attempts[c][i])
        /\ pc[c] \in {"loop", "awaiting", "sleeping"} =>
               /\ result[c] = None
               /\ \A i \in DOMAIN attempts[c] : RetryableFailure(attempts[c][i])
        /\ pc[c] \in {"loop", "awaiting"} =>
               /\ Len(slept[c]) = Len(attempts[c])
               /\ sleeping[c] = 0
        /\ pc[c] = "sleeping" => Len(slept[c]) = Len(attempts[c]) - 1
        /\ Done(c) =>
               /\ result[c] # None
               /\ Len(sent[c]) = Len(attempts[c])
               /\ sleeping[c] = 0

C10_Witness ==
    /\ pc["c1"] = "awaiting"
    /\ inflight["c1"] = 1
    /\ Len(sent["c1"]) = 3
    /\ Len(slept["c1"]) = 2
    /\ IsTransport(attempts["c1"][1])
    /\ IsHttp(attempts["c1"][2], TransientCodes)

\* The state of a call in the terms of the state machine of the design.
CallState(c) ==
    CASE pc[c] = "idle" -> "NotCalled"
      [] pc[c] \in {"loop", "awaiting"} -> "Attempting"
      [] pc[c] = "sleeping" -> "RetryWait"
      [] pc[c] = "done" /\ result[c].tag = "Ok" -> "Success"
      [] OTHER -> "FatalError"

CallTransitions ==
    { <<"NotCalled", "Attempting">>,
      <<"Attempting", "Success">>,
      <<"Attempting", "FatalError">>,
      <<"Attempting", "RetryWait">>,
      <<"RetryWait", "Attempting">> }

C11_Step ==
    \A c \in CallIds :
        /\ \/ CallState(c)' = CallState(c)
           \/ <<CallState(c), CallState(c)'>> \in CallTransitions
        /\ (CallState(c) = "Attempting" /\ CallState(c)' = "RetryWait") =>
               /\ retry_count[c] < 3
               /\ retry_count'[c] = retry_count[c] + 1
        /\ CallState(c)' = CallState(c) => retry_count'[c] = retry_count[c]
        /\ CallState(c) \in {"Success", "FatalError"} =>
               /\ result'[c] = result[c]
               /\ sent'[c] = sent[c]
               /\ slept'[c] = slept[c]

\* C11: a call moves only along Attempting -> Success, Attempting ->
\* FatalError, Attempting -> RetryWait and RetryWait -> Attempting (after
\* entering Attempting when it is called); Success and FatalError are never
\* left; each Attempting -> RetryWait step counts one retry and there are at
\* most 3 of them.  A call that panics counts as ended in FatalError.
C11_StateMachine ==
    /\ [](\A c \in CallIds : retry_count[c] \in 0..3)
    /\ [][C11_Step]_vars

C11_Witness ==
    /\ CallState("c1") = "RetryWait"
    /\ retry_count["c1"] = 3
    /\ Len(slept["c1"]) = 2

\* The retryable failures a call has met and retried.
OwnRetries(c) ==
    Cardinality({i \in Retried(c) : RetryableFailure(attempts[c][i])})

\* C12: with two calls interleaved, each call issues at most 4 requests, its
\* sleeps are 1s, 2s, 4s in order, and its retry count is the number of its
\* own retried failures, whatever the other call has met.
C12_RetryStateIsPerCall ==
    \A c \in CallIds :
        /\ Len(sent[c]) <= 4
        /\ Len(slept[c]) <= 3
        /\ \A k \in DOMAIN slept[c] : slept[c][k] = Backoff[k]
        /\ pc[c] = "sleeping" => sleeping[c] = Backoff[Len(slept[c]) + 1]
        /\ retry_count[c] = OwnRetries(c)
        /\ Len(logs[c]) = OwnRetries(c)

C12_Witness ==
    /\ pc["c1"] = "sleeping"
    /\ retry_count["c1"] = 3
    /\ pc["c2"] = "sleeping"
    /\ retry_count["c2"] = 1
    /\ sleeping["c2"] = 1

\* C13: every request a call issues is the first one again: the same URL,
\* the caller's credential as the bearer token, the caller's request as the
\* body, and nothing else (no attempt marker or deduplication token).
C13_RetriesResendTheSameRequest ==
    \A c \in CallIds : \A i \in DOMAIN sent[c] :
        /\ sent[c][i] = sent[c][1]
        /\ DOMAIN sent[c][i] = {"url", "authorization", "json"}
        /\ sent[c][i].json = request[c]
        /\ sent[c][i].authorization = <<"Bearer", api_key[c]>>

C13_Witness ==
    /\ Len(sent["c1"]) = 4
    /\ sent["c1"][4] = sent["c1"][1]
    /\ sent["c1"][4].json = "req2"
    /\ IsTransport(attempts["c1"][1])
    /\ IsHttp(attempts["c1"][2], TransientCodes)

\* A response that ends the call through format_error_response: a fatal
\* status, or a transient status once the retries are exhausted.
EndsWithErrorBody(c) ==
    /\ Done(c)
    /\ IsHttp(LastAttempt(c), FatalCodes \cup TransientCodes)
    /\ BodyOf(LastAttempt(c)).readable

\* C14: the message of a fatal non-2xx response carries the JSON value of a
\* JSON body; otherwise the raw text, unchanged when it has at most 200
\* characters, and its first 200 characters with the ellipsis when it has more.
C14_ErrorMessageFromBody ==
    \A c \in CallIds :
        EndsWithErrorBody(c) =>
            LET body == BodyOf(LastAttempt(c))
            IN  /\ result[c].tag = "Err"
                /\ result[c].kind = "api"
                /\ IF body.json # "none"
                   THEN result[c].msg.json = body.json
                   ELSE IF CharLen(body.text.chars) <= 200
                   THEN /\ result[c].msg.text = body.text
                        /\ ~result[c].msg.ellipsis
                   ELSE /\ result[c].msg.text.id = body.text.id
                        /\ CharLen(result[c].msg.text.chars) = 200
                        /\ result[c].msg.text.chars = Prefix(body.text.chars, 200)
                        /\ result[c].msg.ellipsis

\* The reason the code gives for the retry after attempt a.
RetryReason(a) ==
    IF IsTransport(a)
    THEN [fmt |-> "network error: {}", err |-> a.err]
    ELSE [fmt |-> "transient error {}", status |-> a.status]

\* One log record per retry decision, written before the sleep starts.
C15_OneRecordPerRetry(c) ==
    /\ Len(logs[c]) = retry_count[c]
    /\ Len(logs[c]) = Len(slept[c]) + (IF pc[c] = "sleeping" THEN 1 ELSE 0)
    /\ \A k \in DOMAIN logs[c] : logs[c][k].error_message = RetryReason(attempts[c][k])

\* C15 as stated: every record carries the attempt count and the reason.
C15_RecordHasAttemptCountAndReason ==
    \A c \in CallIds :
        /\ C15_OneRecordPerRetry(c)
        /\ \A k \in DOMAIN logs[c] :
               /\ "retry_count" \in DOMAIN logs[c][k]
               /\ logs[c][k].retry_count = k

\* C15, amended: every retry decision writes one log record before its sleep;
\* the record carries the reason of the retry (the network error, or the
\* transient status) and the duration of the sleep, 2^(k-1) s for the k-th
\* retry, and no attempt count.
C15_RecordHasReasonAndDuration ==
    \A c \in CallIds :
        /\ C15_OneRecordPerRetry(c)
        /\ \A k \in DOMAIN logs[c] :
               /\ DOMAIN logs[c][k] = {"fmt", "error_message", "sleep_duration"}
               /\ logs[c][k].sleep_duration = Backoff[k]

C15_Witness ==
    /\ pc["c1"] = "sleeping"
    /\ Len(logs["c1"]) = 2
    /\ Len(slept["c1"]) = 1
    /\ logs["c1"][1].error_message = [fmt |-> "network error: {}", err |-> "timeout"]
    /\ logs["c1"][2].error_message = [fmt |-> "transient error {}", status |-> 502]

-----------------------------------------------------------------------------
(* Properties of the RPC client *)

\* The response the current invocation received, and its body.
GotResponse == received # <<>> /\ received[1].kind = "http"

GotBody == received[1].body

\* The tokens that are a value of the result type, by type.
ValuesOf(rtype) ==
    CASE rtype = "u32" -> {"12345"}
      [] rtype = "u64" -> {"12345", "4294967296"}
      [] rtype = "bool" -> {"true", "false"}
      [] rtype = "Vec<String>" -> {"[Default]"}
      [] rtype = "Vec<u64>" -> {"[1,2]"}
      [] OTHER -> {}

Strings == {"x", "y", "abc"}

\* C16: a body {"result": v} with v of the expected type returns v; a body
\* {"error": e, "detail": d} fails with the remote error "e: d"; a body
\* {"error": e} fails with the remote error "e".
C16_EnvelopeIsUnwrappedByShape ==
    (GotResponse /\ GotBody.kind = "object") =>
        /\ (/\ GotBody.result \in ValuesOf(invocation.rtype)
            /\ GotBody.error = "absent"
            /\ GotBody.detail = "absent") =>
               outcome = [tag |-> "Ok",
                          value |-> [ty |-> invocation.rtype, value |-> GotBody.result]]
        /\ (/\ GotBody.result = "absent"
            /\ GotBody.error \in Strings
            /\ GotBody.detail \in Strings) =>
               outcome = [tag |-> "Err", kind |-> "remote",
                          msg |-> [fmt |-> "Anki-Connect error: {}",
                                   error_msg |-> <<GotBody.error, ": ", GotBody.detail>>]]
        /\ (/\ GotBody.result = "absent"
            /\ GotBody.error \in Strings
            /\ GotBody.detail = "absent") =>
               outcome = [tag |-> "Err", kind |-> "remote",
                          msg |-> [fmt |-> "Anki-Connect error: {}",
                                   error_msg |-> <<GotBody.error>>]]

C16_Witness ==
    /\ GotResponse
    /\ GotBody = AnkiBody("object", "absent", "x", "y")
    /\ outcome.tag = "Err"
    /\ outcome.kind = "remote"
    /\ outcome.msg.error_msg = <<"x", ": ", "y">>

\* C17: an envelope built without params serializes with exactly the keys
\* action and version, and reading it back gives the request again (same
\* action, same version, params absent); an envelope built with params
\* serializes with a third key, params, holding the payload.
C17_ParamsKeyOnlyWhenPresent ==
    envelope # NoEnvelope =>
        LET req == envelope.request
            json == envelope.json
        IN  /\ json.type = "object"
            /\ ValueOf(json, "action") = [type |-> "string", text |-> req.action]
            /\ ValueOf(json, "version").type = "number"
            /\ IF req.params = <<>>
               THEN /\ Keys(json) = <<"action", "version">>
                    /\ ParseRequest(json) = req
                    /\ ParseRequest(json).params = <<>>
               ELSE /\ Keys(json) = <<"action", "version", "params">>
                    /\ req.params[1].ty = "()" =>
                           ValueOf(json, "params").type = "null"
                    /\ req.params[1].ty = "GetDeckNamesParams" =>
                           /\ ValueOf(json, "params").type = "object"
                           /\ req.params[1].cards = Some(TRUE) =>
                                  ValueOf(json, "params").members =
                                      <<[key |-> "cards",
                                         value |-> [type |-> "bool", text |-> "true"]]>>

C17_Witness ==
    /\ envelope.request = [action |-> "getDeckNames", version |-> 255, params |-> <<>>]
    /\ Keys(envelope.json) = <<"action", "version">>
    /\ ParseRequest(envelope.json) = envelope.request

\* C18: get_deck_names(None) posts an envelope without a params key;
\* get_deck_names(Some(b)) posts params with the one member cards = b.
C18_DeckNamesOmitsParams ==
    invocation.op = "get_deck_names" =>
        /\ Len(posts) >= 1
        /\ ValueOf(posts[1].json, "action").text = "getDeckNames"
        /\ IF invocation.arg = <<>>
           THEN ~HasKey(posts[1].json, "params")
           ELSE /\ HasKey(posts[1].json, "params")
                /\ ValueOf(posts[1].json, "params") =
                       [type |-> "object",
                        members |-> <<[key |-> "cards",
                                       value |-> [type |-> "bool",
                                                  text |-> IF invocation.arg[1]
                                                           THEN "true" ELSE "false"]]>>]

C18_Witness ==
    /\ invocation.op = "get_deck_names"
    /\ invocation.arg = <<>>
    /\ Keys(posts[1].json) = <<"action", "version">>
    /\ invoke_pc = "done"

\* C19: every invocation issues exactly one POST, whatever comes back; a
\* failed send ends it at once with the transport error.
C19_OnePostPerInvoke ==
    /\ posted = invoked
    /\ invoke_pc = "ready" => posts = <<>>
    /\ invoke_pc # "ready" =>
           /\ Len(posts) = 1
           /\ posts[1].method = "POST"
           /\ posts[1].url = anki.url
    /\ invoke_pc = "awaiting" <=> (invoked > 0 /\ received = <<>>)
    /\ (received # <<>> /\ received[1].kind = "transport") =>
           /\ invoke_pc = "done"
           /\ outcome = [tag |-> "Err", kind |-> "transport",
                         msg |-> [context |-> "Failed to send request to Anki-Connect",
                                  source |-> received[1].err]]

C19_Witness ==
    /\ invoked = 2
    /\ posted = 2
    /\ received # <<>>
    /\ received[1].kind = "transport"
    /\ outcome.tag = "Err"
    /\ outcome.kind = "transport"

\* The body has the success shape for the result type: an object whose
\* result member is a value of that type.
HasSuccessShape(body, rtype) ==
    body.kind = "object" /\ body.result \in ValuesOf(rtype)

\* The body has the error shape: an object whose error member is a string
\* and whose detail member, if any, is a string or null.
HasErrorShape(body) ==
    /\ body.kind = "object"
    /\ body.error \in Strings
    /\ body.detail \in Strings \cup {"absent", "null"}

\* C20: a body that is not JSON, or that has neither the success shape nor
\* the error shape, makes invoke fail with the decode error whose context
\* names the parse of the response text; never a success or a remote error.
C20_UnparsableBodyIsDecodeError ==
    (/\ GotResponse
     /\ GotBody.kind # "unreadable"
     /\ ~HasSuccessShape(GotBody, invocation.rtype)
     /\ ~HasErrorShape(GotBody)) =>
        /\ invoke_pc = "done"
        /\ outcome.tag = "Err"
        /\ outcome.kind = "decode"
        /\ outcome.msg.context = "Failed to parse Anki-Connect response"

C20_Witness ==
    /\ GotResponse
    /\ GotBody = AnkiBody("object", "null", "null", "absent")
    /\ invocation.rtype = "u32"
    /\ outcome.tag = "Err"
    /\ outcome.kind = "decode"

\* C21: update_note_fields returns Ok only when the response carries the
\* result true; the result false becomes the error "Failed to update note
\* fields"; an error of invoke (transport, read, decode, remote) is returned
\* as it is.
C21_UpdateFalseIsFailure ==
    (invocation.op = "update_note_fields" /\ invoke_pc = "done") =>
        /\ returned.tag \in {"Ok", "Err"}
        /\ returned.tag = "Ok" <=>
               (GotResponse /\ GotBody.kind = "object" /\ GotBody.result = "true")
        /\ (GotResponse /\ GotBody.kind = "object" /\ GotBody.result = "false") =>
               /\ returned.tag = "Err"
               /\ returned.kind = "domain"
               /\ returned.msg.fmt = "Failed to update note fields"
        /\ outcome.tag = "Err" => returned = outcome
        /\ received[1].kind = "transport" =>
               returned.tag = "Err" /\ returned.kind = "transport"

C21_Witness ==
    /\ invocation.op = "update_note_fields"
    /\ GotResponse
    /\ GotBody = AnkiBody("object", "false", "absent", "absent")
    /\ outcome.tag = "Ok"
    /\ returned.tag = "Err"
    /\ returned.kind = "domain"

\* C22: a body whose result member is a value of the expected type yields
\* success with that value even when it also has an error member; a remote
\* error is reported only when the result member is missing or not of the
\* expected type.
C22_SuccessShapeFirst ==
    (GotResponse /\ GotBody.kind = "object") =>
        /\ (GotBody.result \in ValuesOf(invocation.rtype) /\ GotBody.error # "absent") =>
               outcome = [tag |-> "Ok",
                          value |-> [ty |-> invocation.rtype, value |-> GotBody.result]]
        /\ (outcome.tag = "Err" /\ outcome.kind = "remote") =>
               GotBody.result \notin ValuesOf(invocation.rtype)

C22_Witness ==
    /\ GotResponse
    /\ GotBody = AnkiBody("object", "12345", "x", "y")
    /\ invocation.rtype = "u32"
    /\ outcome.tag = "Ok"
    /\ outcome.value.value = "12345"

Urls == {"http://custom:8765", "http://localhost:8765", ""}

\* The client holds version 6 and the URL of its constructor, and what it
\* posts goes to that URL with version 6.
C23_State ==
    /\ AnkiClient_new.version = 6
    /\ AnkiClient_new.url = "http://localhost:8765"
    /\ AnkiClient_default.version = 6
    /\ AnkiClient_default.url = "http://localhost:8765"
    /\ \A client \in {"Client::new()", "custom client"} :
           /\ AnkiClient_with_client(client).version = 6
           /\ AnkiClient_with_client(client).url = "http://localhost:8765"
    /\ \A u \in Urls :
           /\ AnkiClient_with_url(u).version = 6
           /\ AnkiClient_with_url(u).url = u
    /\ anki.version = 6
    /\ anki.url \in {"http://localhost:8765", "http://custom:8765"}
    /\ \A i \in DOMAIN posts :
           /\ ValueOf(posts[i].json, "version") = [type |-> "number", text |-> "6"]
           /\ posts[i].url = anki.url

\* C23: every constructor sets version 6; new, with_client and default use
\* http://localhost:8765 and with_url the URL it is given; no operation
\* changes the client; every envelope posted carries version 6.
C23_VersionSixEverywhere ==
    /\ []C23_State
    /\ [][anki' = anki]_vars

C23_Witness ==
    /\ anki = [client |-> "Client::new()", url |-> "http://custom:8765", version |-> 6]
    /\ invocation.op = "get_deck_names"
    /\ posts[1].url = "http://custom:8765"
    /\ ValueOf(posts[1].json, "version").text = "6"
    /\ invoke_pc = "done"

\* C26: whatever the status, a body of the success shape returns its result
\* and a body of the error shape (and not of the success shape) fails with
\* the remote error: 500 with {"result": v} is a success, 200 with
\* {"error": e} is a remote error.
C26_StatusIsNotLookedAt ==
    (GotResponse /\ GotBody.kind = "object") =>
        /\ received[1].status \in AnkiStatuses
        /\ HasSuccessShape(GotBody, invocation.rtype) =>
               outcome = [tag |-> "Ok",
                          value |-> [ty |-> invocation.rtype, value |-> GotBody.result]]
        /\ (~HasSuccessShape(GotBody, invocation.rtype) /\ HasErrorShape(GotBody)) =>
               outcome.tag = "Err" /\ outcome.kind = "remote"

C26_Witness ==
    /\ GotResponse
    /\ received[1].status = 500
    /\ GotBody = AnkiBody("object", "[Default]", "absent", "absent")
    /\ invocation.op = "get_deck_names"
    /\ outcome.tag = "Ok"

C26_WitnessRemoteError ==
    /\ GotResponse
    /\ received[1].status = 200
    /\ GotBody = AnkiBody("object", "absent", "x", "absent")
    /\ outcome.tag = "Err"
    /\ outcome.kind = "remote"

\* C24: under the fairness of FairSpec (requests are answered, sleeps
\* elapse, the loop is polled), every call that was started ends: with a
\* response, with an error, or unwinding from the panic of C8.
C24_EveryCallEnds ==
    \A c \in CallIds : (pc[c] # "idle") ~> Done(c)

C24_Witness ==
    /\ Done("c1")
    /\ Failed("c1")
    /\ Len(attempts["c1"]) = 4
    /\ Len(slept["c1"]) = 3

\* C25: retry_count stays within 0..3; wait_before_retry is called once per
\* increment, the i-th time with the counter i in 1..3, so the exponent
\* retry_count - 1 is in 0..2 and every wait is 1, 2 or 4 seconds.
C25_CounterInRange ==
    \A c \in CallIds :
        /\ retry_count[c] \in 0..3
        /\ Len(logs[c]) = retry_count[c]
        /\ \A i \in DOMAIN logs[c] :
               /\ i \in 1..3
               /\ logs[c][i].sleep_duration = Pow2(i - 1)
               /\ logs[c][i].sleep_duration <= 4
        /\ pc[c] = "sleeping" =>
               /\ retry_count[c] \in 1..3
               /\ retry_count[c] - 1 >= 0
               /\ sleeping[c] = Pow2(retry_count[c] - 1)
               /\ sleeping[c] <= 4
        /\ \A i \in DOMAIN slept[c] : slept[c][i] \in {1, 2, 4}

C25_Witness ==
    /\ pc["c1"] = "sleeping"
    /\ retry_count["c1"] = 3
    /\ sleeping["c1"] = 4
    /\ slept["c1"] = <<1, 2>>

====
